---- MODULE Spec2Model ----
(***************************************************************************)
(* A state-machine model of the MedLink AI backend (main.py, schemas.py):  *)
(* the symptom analyzer, the consultation, reminder, vital and offline     *)
(* handlers, the bearer-token dependency and the pydantic field bounds.    *)
(*                                                                         *)
(* Text is modelled by TLA+ strings; str.lower() and the `in` substring    *)
(* test are computed character by character.  The document store           *)
(* (database.py: create_document, get_documents) is not part of main.py    *)
(* and is modelled from its contract: an insert appends one record with a  *)
(* fresh identifier, a query returns the first `limit` records that match  *)
(* the equality filter.                                                    *)
(***************************************************************************)
EXTENDS Integers, Sequences, FiniteSets, TLC

(***************************************************************************)
(* The field names of the requests, responses, tokens and documents.  TLC  *)
(* keeps the fields of a record in the order in which the module first     *)
(* names them; every record below lists its fields in this order, so it is *)
(* built in normal form.                                                   *)
(***************************************************************************)
FieldNames ==
    DOMAIN [ _id |-> 0, access_token |-> 0, age |-> 0, app |-> 0,
             backend |-> 0, body |-> 0, bp_diastolic |-> 0,
             bp_systolic |-> 0, collections |-> 0, connection_status |-> 0,
             consultation_id |-> 0, created_at |-> 0, creds |-> 0,
             dark_mode |-> 0, database |-> 0, date |-> 0, detail |-> 0,
             diagnosis |-> 0, doctor_name |-> 0, dosage |-> 0,
             duration_days |-> 0, email |-> 0, ended_at |-> 0, exp |-> 0,
             gender |-> 0, heart_rate |-> 0, iat |-> 0, info |-> 0,
             key |-> 0, keys |-> 0, language |-> 0, limit |-> 0,
             medical_history |-> 0, medicine_name |-> 0, medicines |-> 0,
             message_id |-> 0, name |-> 0, notes |-> 0, op |-> 0,
             possible_causes |-> 0, profile |-> 0, rating |-> 0,
             recorded_at |-> 0, sender |-> 0, sent_at |-> 0, specialty |-> 0,
             spo2 |-> 0, started_at |-> 0, status |-> 0, sub |-> 0,
             temperature_c |-> 0, text |-> 0, time |-> 0, timing |-> 0,
             token_type |-> 0, user |-> 0, user_email |-> 0 ]

VARIABLES
    store,   \* collection name -> sequence of stored documents
    now,     \* the clock read by datetime.utcnow(), in days
    req,     \* the request handled last
    resp     \* the response given to it

vars == <<store, now, req, resp>>

(***************************************************************************)
(* Bounds of the exploration.                                              *)
(***************************************************************************)
MaxFrags == 4    \* fragments concatenated into one symptom text
MaxDocs == 2     \* documents in the store, all collections together
MaxNow == 1      \* days the clock may advance
MaxLimit == 2    \* largest `limit` query parameter of GET /vitals

\* Optional[T]: None, or Some(x) holding the value x
None == <<>>
Some(x) == <<x>>
Val(o) == o[1]

\* Python truthiness of an Optional[str]
Truthy(o) == o # None /\ Val(o) # ""

Min(a, b) == IF a < b THEN a ELSE b

(***************************************************************************)
(* Strings: str.lower() and the substring test `k in text`.                *)
(***************************************************************************)
UpperCase == "ABCDEFGHIJKLMNOPQRSTUVWXYZ"
LowerCase == "abcdefghijklmnopqrstuvwxyz"

\* the lowercase letter of every uppercase letter
UpperToLower ==
    [c \in {SubSeq(UpperCase, i, i) : i \in 1..Len(UpperCase)} |->
        LET i == CHOOSE j \in 1..Len(UpperCase) : SubSeq(UpperCase, j, j) = c
        IN  SubSeq(LowerCase, i, i)]

LowerChar(c) == IF c \in DOMAIN UpperToLower THEN UpperToLower[c] ELSE c

RECURSIVE LowerStr(_)
LowerStr(s) ==
    IF Len(s) = 0 THEN ""
    ELSE LowerChar(SubSeq(s, 1, 1)) \o LowerStr(SubSeq(s, 2, Len(s)))

Contains(text, k) ==
    \E i \in 0..(Len(text) - Len(k)) : SubSeq(text, i + 1, i + Len(k)) = k

(***************************************************************************)
(* The symptom checker.  KEYWORDS is a dict; Python iterates it in         *)
(* declaration order, which the sequence keeps.                            *)
(***************************************************************************)
KEYWORDS ==
    << [diagnosis |-> "Viral Fever",
        keys |-> <<"fever", "chills", "body ache", "fatigue">>],
       [diagnosis |-> "COVID-19",
        keys |-> <<"loss of taste", "loss of smell", "dry cough",
                   "shortness of breath">>],
       [diagnosis |-> "Typhoid",
        keys |-> <<"high fever", "abdominal pain", "constipation",
                   "rose spots">>],
       [diagnosis |-> "Common Cold",
        keys |-> <<"runny nose", "sneezing", "sore throat">>],
       [diagnosis |-> "Migraine",
        keys |-> <<"headache", "throbbing", "sensitivity to light">>] >>

Fallback == <<"General Viral Infection", "Dehydration">>

\* any(k in text for k in keys)
AnyKeyIn(keys, text) == \E j \in 1..Len(keys) : Contains(text, keys[j])

\* the for loop over KEYWORDS.items(), from entry i on
RECURSIVE MatchLoop(_, _, _)
MatchLoop(i, text, matches) ==
    IF i > Len(KEYWORDS) THEN matches
    ELSE MatchLoop(i + 1, text,
                   IF AnyKeyIn(KEYWORDS[i].keys, text)
                   THEN Append(matches, KEYWORDS[i].diagnosis)
                   ELSE matches)

\* matches[:3]
FirstThree(s) == SubSeq(s, 1, Min(3, Len(s)))

\* mutants of analyze_symptoms
analyze_no_truncation(reqText) ==
    LET matches == MatchLoop(1, LowerStr(reqText), <<>>)
    IN  [possible_causes |-> IF matches = <<>> THEN Fallback ELSE matches]

analyze_no_lowercase(reqText) ==
    LET matches == MatchLoop(1, reqText, <<>>)
    IN  [possible_causes |->
            FirstThree(IF matches = <<>> THEN Fallback ELSE matches)]

analyze_no_fallback(reqText) ==
    [possible_causes |-> FirstThree(MatchLoop(1, LowerStr(reqText), <<>>))]

analyze_truncate_to_two(reqText) ==
    LET matches == MatchLoop(1, LowerStr(reqText), <<>>)
        found   == IF matches = <<>> THEN Fallback ELSE matches
    IN  [possible_causes |-> SubSeq(found, 1, Min(2, Len(found)))]

analyze_symptoms(reqText) ==
    LET text    == LowerStr(reqText)
        matches == MatchLoop(1, text, <<>>)
    IN  [possible_causes |->
            FirstThree(IF matches = <<>> THEN Fallback ELSE matches)]

(***************************************************************************)
(* Symptom texts: concatenations of fragments, in mixed case, with fillers *)
(* and with phrases split over two fragments.                              *)
(***************************************************************************)
Fragments ==
    { "fever", "High Fever", "DRY COUGH", "Sneezing", "headache",
      "constipation", "sore thro", "at", "no ", "just tired" }

RECURSIVE TextsUpTo(_)
TextsUpTo(n) ==
    IF n = 0 THEN {""}
    ELSE LET T == TextsUpTo(n - 1)
         IN  T \cup {t \o f : t \in T, f \in Fragments}

SampleTexts ==
    { "I have a dry cough and loss of smell", "just tired" }

NoRequest == [op |-> "none"]
NoResponse == [status |-> 0]

(***************************************************************************)
(* The document store (database.py), from its contract.                    *)
(***************************************************************************)
Collections == {"consultation", "message", "reminder", "vital", "offlinemessage"}

EmptyStore == [c \in Collections |-> <<>>]

RECURSIVE CountDocs(_, _)
CountDocs(s, cs) ==
    IF cs = {} THEN 0
    ELSE LET c == CHOOSE x \in cs : TRUE
         IN  Len(s[c]) + CountDocs(s, cs \ {c})

TotalDocs(s) == CountDocs(s, Collections)

\* the identifier the store assigns to the next document
NextId(s) == TotalDocs(s) + 1

\* str(ObjectId)
Str(id) == ToString(id)

\* create_document(collection, data): one document more in `collection`,
\* none in any other; it returns the new identifier as a string
create_document(collection, data) ==
    /\ TotalDocs(store) < MaxDocs
    /\ store' = [store EXCEPT
                    ![collection] = Append(@, data @@ [_id |-> NextId(store)])]

\* filter_dict matching: equality on every field the filter names
MatchesFilter(doc, filter) ==
    \A k \in DOMAIN filter : k \in DOMAIN doc /\ doc[k] = filter[k]

\* get_documents(collection, filter, limit): the first `limit` matching
\* documents, in the store's order
get_documents(collection, filter, limit) ==
    LET Test(doc) == MatchesFilter(doc, filter)
        found == SelectSeq(store[collection], Test)
    IN  SubSeq(found, 1, Min(limit, Len(found)))

NoFilter == [k \in {} |-> None]

(***************************************************************************)
(* schemas.py: the declared field bounds, and pydantic's validation.       *)
(***************************************************************************)
DurationDaysMin == 1
DurationDaysMax == 365
HeartRateMin == 20
HeartRateMax == 220
BpSystolicMin == 60
BpSystolicMax == 220
BpDiastolicMin == 40
BpDiastolicMax == 140
Spo2Min == 50
Spo2Max == 100
TemperatureMin == 30
TemperatureMax == 45

\* the fields of a Reminder body that fail validation
ReminderErrors(rem) ==
    IF rem.duration_days >= DurationDaysMin
       /\ rem.duration_days <= DurationDaysMax
    THEN {} ELSE {"duration_days"}

\* mutant of VitalErrors: ge/le read as gt/lt
VitalErrors_exclusive(v) ==
    {f \in {"heart_rate"} :
        ~(v.heart_rate > HeartRateMin /\ v.heart_rate < HeartRateMax)}
    \cup {f \in {"bp_systolic"} :
        ~(v.bp_systolic > BpSystolicMin /\ v.bp_systolic < BpSystolicMax)}
    \cup {f \in {"bp_diastolic"} :
        ~(v.bp_diastolic > BpDiastolicMin /\ v.bp_diastolic < BpDiastolicMax)}
    \cup {f \in {"spo2"} : ~(v.spo2 > Spo2Min /\ v.spo2 < Spo2Max)}
    \cup {f \in {"temperature_c"} :
        ~(v.temperature_c > 10 * TemperatureMin
          /\ v.temperature_c < 10 * TemperatureMax)}

\* the fields of a Vital body that fail validation; temperature_c, a float,
\* is held in tenths of a degree
VitalErrors(v) ==
    {f \in {"heart_rate"} :
        ~(v.heart_rate >= HeartRateMin /\ v.heart_rate <= HeartRateMax)}
    \cup {f \in {"bp_systolic"} :
        ~(v.bp_systolic >= BpSystolicMin /\ v.bp_systolic <= BpSystolicMax)}
    \cup {f \in {"bp_diastolic"} :
        ~(v.bp_diastolic >= BpDiastolicMin /\ v.bp_diastolic <= BpDiastolicMax)}
    \cup {f \in {"spo2"} : ~(v.spo2 >= Spo2Min /\ v.spo2 <= Spo2Max)}
    \cup {f \in {"temperature_c"} :
        ~(v.temperature_c >= 10 * TemperatureMin
          /\ v.temperature_c <= 10 * TemperatureMax)}

\* Message.sender: Literal["user", "doctor"]
MessageErrors(m) == IF m.sender \in {"user", "doctor"} THEN {} ELSE {"sender"}

(***************************************************************************)
(* Tokens.  A token is its payload and the key that signed it.             *)
(***************************************************************************)
JWT_SECRET == "dev_secret_change_me"
TokenDays == 7

\* create_token, with the clock reading it takes from datetime.utcnow()
create_token(email, name, utcnow) ==
    [exp |-> utcnow + TokenDays, iat |-> utcnow, key |-> JWT_SECRET,
     name |-> name, sub |-> email]

\* jwt.decode raises on a bad signature and on an expired token
DecodeFails(token) == token.key # JWT_SECRET \/ token.exp <= now

\* mutant of get_current_user: the decode error is swallowed
get_current_user_lenient(creds) ==
    IF creds = None \/ DecodeFails(Val(creds))
    THEN [status |-> 200, user |-> None]
    ELSE [status |-> 200,
          user |-> Some([email |-> Val(creds).sub, name |-> Val(creds).name])]

\* the optional bearer dependency: None without credentials, the caller's
\* identity for a token that decodes, HTTP 401 otherwise
get_current_user(creds) ==
    IF creds = None THEN [status |-> 200, user |-> None]
    ELSE IF DecodeFails(Val(creds))
         THEN [detail |-> "Invalid or expired token", status |-> 401]
         ELSE [status |-> 200,
               user |-> Some([email |-> Val(creds).sub,
                              name |-> Val(creds).name])]

(***************************************************************************)
(* The handlers.  Each is one step: it records the request, performs at    *)
(* most one store operation and gives the response.                        *)
(***************************************************************************)
Init ==
    /\ store = EmptyStore
    /\ now = 0
    /\ req = NoRequest
    /\ resp = NoResponse

\* the clock advances between requests
Tick ==
    /\ now < MaxNow
    /\ now' = now + 1
    /\ UNCHANGED <<store, req, resp>>

\* GET /
root ==
    /\ req' = [op |-> "root"]
    /\ resp' = [body |-> [app |-> "MedLink AI", status |-> "ok"], status |-> 200]
    /\ UNCHANGED <<store, now>>

\* GET /test, with the store connected: the collections that hold documents
test_database ==
    /\ req' = [op |-> "test_database"]
    /\ resp' = [body |-> [backend |-> "Running",
                          collections |-> {c \in Collections : store[c] # <<>>},
                          connection_status |-> "Connected",
                          database |-> "Connected & Working"],
                status |-> 200]
    /\ UNCHANGED <<store, now>>

\* POST /auth/login
login(r) ==
    /\ req' = [body |-> r, op |-> "login"]
    /\ resp' = [body |-> [access_token |->
                              create_token(r.email,
                                  IF Truthy(r.name) THEN Val(r.name) ELSE "User",
                                  now),
                          email |-> r.email,
                          name |-> r.name, token_type |-> "bearer"],
                status |-> 200]
    /\ UNCHANGED <<store, now>>

\* POST /auth/guest
guest_login ==
    /\ req' = [op |-> "guest_login"]
    /\ resp' = [body |-> [access_token |->
                              create_token("guest@medlink.ai", "Guest", now),
                          email |-> "guest@medlink.ai",
                          name |-> "Guest", token_type |-> "bearer"],
                status |-> 200]
    /\ UNCHANGED <<store, now>>

\* POST /ai/analyze
Analyze(text) ==
    /\ req' = [op |-> "analyze", text |-> text]
    /\ resp' = [body |-> analyze_symptoms(text), status |-> 200]
    /\ UNCHANGED <<store, now>>

\* GET /doctors: the seeded list; a rating is held in tenths
list_doctors ==
    /\ req' = [op |-> "list_doctors"]
    /\ resp' = [body |-> << [name |-> "Dr. Neha Kapoor", rating |-> 49,
                             specialty |-> "General Physician",
                             status |-> "Available"],
                            [name |-> "Dr. Arjun Mehta", rating |-> 47,
                             specialty |-> "Cardiologist", status |-> "Busy"],
                            [name |-> "Dr. Ishita Rao", rating |-> 48,
                             specialty |-> "Pediatrician",
                             status |-> "Available"] >>,
                status |-> 200]
    /\ UNCHANGED <<store, now>>

\* POST /consult/start
start_consult(r) ==
    LET cons == [doctor_name |-> r.doctor_name, ended_at |-> None,
                 rating |-> None, started_at |-> now, user_email |-> r.user_email]
    IN  /\ create_document("consultation", cons)
        /\ req' = [body |-> r, op |-> "start_consult"]
        /\ resp' = [body |-> [consultation_id |-> Str(NextId(store)),
                              status |-> "started"],
                    status |-> 200]
        /\ UNCHANGED now

\* building a Message: a sender outside the Literal is a ValidationError,
\* which the handler does not catch
StoreMessage(msg, sender) ==
    LET message == [consultation_id |-> msg.consultation_id,
                    sender |-> sender, sent_at |-> now, text |-> msg.text]
    IN  /\ req' = [body |-> msg, op |-> "post_message"]
        /\ IF MessageErrors(message) = {}
           THEN /\ create_document("message", message)
                /\ resp' = [body |-> [message_id |-> Str(NextId(store))],
                            status |-> 200]
           ELSE /\ resp' = [status |-> 500]
                /\ UNCHANGED store
        /\ UNCHANGED now

\* mutant of post_message: the sender is stored as sent
post_message_no_coercion(msg) == StoreMessage(msg, msg.sender)

\* POST /consult/message
post_message(msg) ==
    StoreMessage(msg,
        IF msg.sender \notin {"user", "doctor"} THEN "user" ELSE msg.sender)

\* mutant of end_consult: the rating and the end time are written back
end_consult_writes_back(r) ==
    /\ req' = [body |-> r, op |-> "end_consult"]
    /\ resp' = [body |-> [consultation_id |-> r.consultation_id,
                          rating |-> r.rating, status |-> "ended"],
                status |-> 200]
    /\ store' = [store EXCEPT !["consultation"] =
                    [i \in DOMAIN @ |->
                        IF Str(@[i]._id) = r.consultation_id
                        THEN [@[i] EXCEPT !.ended_at = Some(now),
                                          !.rating = r.rating]
                        ELSE @[i]]]
    /\ UNCHANGED now

\* POST /consult/end
end_consult(r) ==
    /\ req' = [body |-> r, op |-> "end_consult"]
    /\ resp' = [body |-> [consultation_id |-> r.consultation_id,
                          rating |-> r.rating, status |-> "ended"],
                status |-> 200]
    /\ UNCHANGED <<store, now>>

\* GET /prescriptions/sample
get_sample_prescription ==
    /\ req' = [op |-> "get_sample_prescription"]
    /\ resp' = [body |-> [date |-> now,
                          diagnosis |-> "Viral Fever",
                          doctor_name |-> "Dr. Neha Kapoor",
                          medicines |->
                              << [dosage |-> "1 tablet",
                                  name |-> "Paracetamol 500mg",
                                  timing |-> "Every 6 hours"],
                                 [dosage |-> "200ml", name |-> "ORS",
                                  timing |-> "After each loose stool"] >>,
                          notes |-> "Hydrate well and rest for 2-3 days.",
                          user_email |-> "sandhya@example.com"],
                status |-> 200]
    /\ UNCHANGED <<store, now>>

\* the steps of POST /reminders, given the dependency's verdict
ReminderSteps(rem, creds, auth) ==
    /\ req' = [body |-> rem, creds |-> creds, op |-> "create_reminder"]
    /\ IF auth.status # 200
       THEN /\ resp' = auth
            /\ UNCHANGED store
       ELSE IF ReminderErrors(rem) # {}
            THEN /\ resp' = [detail |-> ReminderErrors(rem), status |-> 422]
                 /\ UNCHANGED store
            ELSE /\ create_document("reminder", rem)
                 /\ resp' = [body |-> [status |-> "created"], status |-> 200]
    /\ UNCHANGED now

\* POST /reminders
create_reminder(rem, creds) == ReminderSteps(rem, creds, get_current_user(creds))

\* stringify the identifiers of the documents read
WithStrIds(docs) ==
    [i \in DOMAIN docs |-> [docs[i] EXCEPT !._id = Str(@)]]

\* GET /reminders; `email` is None when the query parameter is absent
list_reminders(email) ==
    /\ req' = [email |-> email, op |-> "list_reminders"]
    /\ resp' = [body |-> WithStrIds(
                    get_documents("reminder",
                        IF Truthy(email)
                        THEN [user_email |-> Val(email)] ELSE NoFilter,
                        100)),
                status |-> 200]
    /\ UNCHANGED <<store, now>>

\* mutant of record_vital: the vital lands in the reminder collection
record_vital_wrong_collection(v) ==
    /\ req' = [body |-> v, op |-> "record_vital"]
    /\ IF VitalErrors(v) # {}
       THEN /\ resp' = [detail |-> VitalErrors(v), status |-> 422]
            /\ UNCHANGED store
       ELSE /\ create_document("reminder", v)
            /\ resp' = [body |-> [status |-> "recorded"], status |-> 200]
    /\ UNCHANGED now

\* POST /vitals
record_vital(v) ==
    /\ req' = [body |-> v, op |-> "record_vital"]
    /\ IF VitalErrors(v) # {}
       THEN /\ resp' = [detail |-> VitalErrors(v), status |-> 422]
            /\ UNCHANGED store
       ELSE /\ create_document("vital", v)
            /\ resp' = [body |-> [status |-> "recorded"], status |-> 200]
    /\ UNCHANGED now

\* GET /vitals
get_vitals(email, limit) ==
    /\ req' = [email |-> email, limit |-> limit, op |-> "get_vitals"]
    /\ resp' = [body |-> WithStrIds(
                    get_documents("vital",
                        IF Truthy(email)
                        THEN [user_email |-> Val(email)] ELSE NoFilter,
                        limit)),
                status |-> 200]
    /\ UNCHANGED <<store, now>>

\* POST /offline
save_offline(msg) ==
    /\ req' = [body |-> msg, op |-> "save_offline"]
    /\ create_document("offlinemessage", msg)
    /\ resp' = [body |-> [info |-> "A doctor will reply via SMS soon.",
                          status |-> "queued"],
                status |-> 200]
    /\ UNCHANGED now

\* GET /profile: a mock profile that ignores the store
get_profile(email) ==
    /\ req' = [email |-> email, op |-> "get_profile"]
    /\ resp' = [body |-> [age |-> 28, dark_mode |-> FALSE, email |-> email,
                          gender |-> "Female", language |-> "English",
                          medical_history |-> <<"Consultation - 2024-05-10",
                                                "Typhoid (2019)">>,
                          name |-> "Sandhya"],
                status |-> 200]
    /\ UNCHANGED <<store, now>>

\* POST /profile: the fields given (not None) are echoed
update_profile(update) ==
    /\ req' = [body |-> update, op |-> "update_profile"]
    /\ resp' = [body |-> [profile |-> [f \in {g \in DOMAIN update :
                                                 update[g] # None}
                                          |-> Val(update[f])],
                          status |-> "updated"],
                status |-> 200]
    /\ UNCHANGED <<store, now>>

(***************************************************************************)
(* Requests.                                                               *)
(***************************************************************************)
Emails == {"a@x.io", "b@x.io"}

\* the `email` query parameter: absent, empty, or an address
EmailParams == {None, Some("")} \cup {Some(e) : e \in Emails}

\* the credentials of a request at clock reading t: none, a token issued
\* TokenDays ago, one issued a day later, one issued just now, and a token
\* signed with another key
Credentials(t) ==
    {None}
    \cup {Some(create_token(e, "User", iat)) :
            e \in Emails, iat \in {t - TokenDays, t - TokenDays + 1, t}}
    \cup {Some([create_token(e, "User", t) EXCEPT !.key = "another_key"]) :
            e \in Emails}

ReminderBody(email, days) ==
    [duration_days |-> days, medicine_name |-> "Paracetamol", notes |-> None,
     time |-> "08:30", user_email |-> email]

BaselineVital ==
    [bp_diastolic |-> 80, bp_systolic |-> 120, heart_rate |-> 75,
     recorded_at |-> None, spo2 |-> 98, temperature_c |-> 370,
     user_email |-> "a@x.io"]

\* values on and next to the declared bounds of a Vital field
EdgeValues(f) ==
    CASE f = "heart_rate" ->
            {HeartRateMin - 1, HeartRateMin, HeartRateMax, HeartRateMax + 1, 250}
      [] f = "bp_systolic" ->
            {BpSystolicMin - 1, BpSystolicMin, BpSystolicMax, BpSystolicMax + 1}
      [] f = "bp_diastolic" ->
            {BpDiastolicMin - 1, BpDiastolicMin, BpDiastolicMax,
             BpDiastolicMax + 1}
      [] f = "spo2" -> {Spo2Min - 1, Spo2Min, Spo2Max, Spo2Max + 1}
      [] f = "temperature_c" ->
            {10 * TemperatureMin - 1, 10 * TemperatureMin,
             10 * TemperatureMax, 10 * TemperatureMax + 1}

VitalFields ==
    {"heart_rate", "bp_systolic", "bp_diastolic", "spo2", "temperature_c"}

\* the baseline, every one-field departure to an edge value, a body whose
\* systolic pressure is below its diastolic pressure, and one with two
\* fields out of range
VitalBodies ==
    {BaselineVital}
    \cup UNION {{[BaselineVital EXCEPT ![f] = x] : x \in EdgeValues(f)} :
                    f \in VitalFields}
    \cup {[BaselineVital EXCEPT !.bp_systolic = BpSystolicMin,
                                !.bp_diastolic = BpDiastolicMax],
          [BaselineVital EXCEPT !.heart_rate = HeartRateMax + 1,
                                !.spo2 = Spo2Max + 1]}

(***************************************************************************)
(* Spec: every endpoint, on representative requests, in any interleaving.  *)
(***************************************************************************)
Login ==
    \E e \in Emails, n \in {None, Some("Sandhya")} :
        login([email |-> e, name |-> n])

AnalyzeSample == \E text \in SampleTexts : Analyze(text)

StartConsult ==
    start_consult([doctor_name |-> "Dr. Neha Kapoor", user_email |-> "a@x.io"])

PostMessage ==
    \E sender \in {"user", "doctor", "nurse"} :
        post_message([consultation_id |-> "1", sender |-> sender, text |-> "hi"])

EndConsult ==
    \E rating \in {None, Some(5)} :
        end_consult([consultation_id |-> "1", rating |-> rating])

CreateReminder ==
    \E days \in {30, 0} :
        \E creds \in {None, Some([create_token("a@x.io", "User", now)
                                     EXCEPT !.key = "another_key"])} :
            create_reminder(ReminderBody("a@x.io", days), creds)

ListReminders == \E email \in {None, Some("a@x.io")} : list_reminders(email)

RecordVital ==
    \E v \in {BaselineVital, [BaselineVital EXCEPT !.heart_rate = 250]} :
        record_vital(v)

GetVitals == \E email \in {None, Some("a@x.io")} : get_vitals(email, 20)

SaveOffline ==
    save_offline([created_at |-> None, text |-> "help", user_email |-> None])

GetProfile == get_profile("sandhya@example.com")

UpdateProfile ==
    update_profile([age |-> None, dark_mode |-> None, gender |-> None,
                    language |-> None, name |-> Some("Sandhya")])

Next ==
    \/ Tick
    \/ root
    \/ test_database
    \/ Login
    \/ guest_login
    \/ AnalyzeSample
    \/ list_doctors
    \/ StartConsult
    \/ PostMessage
    \/ EndConsult
    \/ get_sample_prescription
    \/ CreateReminder
    \/ ListReminders
    \/ RecordVital
    \/ GetVitals
    \/ SaveOffline
    \/ GetProfile
    \/ UpdateProfile

Spec == Init /\ [][Next]_vars

(***************************************************************************)
(* SpecConsult: the consultation endpoints, with any sender and with       *)
(* consultation ids that were and were not issued.                         *)
(***************************************************************************)
ConsultStart ==
    \E e \in Emails :
        start_consult([doctor_name |-> "Dr. Neha Kapoor", user_email |-> e])

ConsultMessage ==
    \E cid \in {"1", "404"}, sender \in {"user", "doctor", "nurse", "Doctor", ""} :
        post_message([consultation_id |-> cid, sender |-> sender, text |-> "hi"])

ConsultEnd ==
    \E cid \in {"1", "2", "404"}, rating \in {None, Some(5)} :
        end_consult([consultation_id |-> cid, rating |-> rating])

NextConsult == Tick \/ ConsultStart \/ ConsultMessage \/ ConsultEnd

SpecConsult == Init /\ [][NextConsult]_vars

(***************************************************************************)
(* SpecRanges: the two validated create endpoints, on bodies on and next   *)
(* to every declared bound; POST /reminders is sent without a token.       *)
(***************************************************************************)
RangeVital == \E v \in VitalBodies : record_vital(v)

RangeReminder ==
    \E days \in {DurationDaysMin - 1, DurationDaysMin, 30, DurationDaysMax,
                 DurationDaysMax + 1} :
        create_reminder(ReminderBody("a@x.io", days), None)

NextRanges == RangeVital \/ RangeReminder

SpecRanges == Init /\ [][NextRanges]_vars

(***************************************************************************)
(* SpecReminders: login and POST /reminders with every kind of credential. *)
(***************************************************************************)
AuthReminder ==
    \E e \in Emails, days \in {30, 0}, creds \in Credentials(now) :
        create_reminder(ReminderBody(e, days), creds)

NextReminders == Tick \/ Login \/ guest_login \/ AuthReminder

SpecReminders == Init /\ [][NextReminders]_vars

(***************************************************************************)
(* SpecQuery: reminders and vitals of two owners, and the two list         *)
(* endpoints with the email parameter absent, empty or given.              *)
(***************************************************************************)
QueryCreateReminder ==
    \E e \in Emails : create_reminder(ReminderBody(e, 30), None)

QueryRecordVital ==
    \E e \in Emails : record_vital([BaselineVital EXCEPT !.user_email = e])

QueryListReminders == \E email \in EmailParams : list_reminders(email)

QueryGetVitals ==
    \E email \in EmailParams, limit \in 0..MaxLimit : get_vitals(email, limit)

NextQuery ==
    \/ QueryCreateReminder
    \/ QueryRecordVital
    \/ QueryListReminders
    \/ QueryGetVitals

SpecQuery == Init /\ [][NextQuery]_vars

(***************************************************************************)
(* The analyzer on its own: a request carrying any bounded text is         *)
(* pending, and the handler answers it.                                    *)
(***************************************************************************)
InitAnalyze ==
    /\ store = EmptyStore
    /\ now = 0
    /\ req \in {[op |-> "analyze", text |-> t] : t \in TextsUpTo(MaxFrags)}
    /\ resp = NoResponse

AnalyzePending ==
    /\ req.op = "analyze"
    /\ resp = NoResponse
    /\ Analyze(req.text)

NextAnalyze == AnalyzePending

SpecAnalyze == InitAnalyze /\ [][NextAnalyze]_vars

(***************************************************************************)
(* Claims about the symptom analyzer, checked under SpecAnalyze.           *)
(***************************************************************************)
Answered == req.op = "analyze" /\ resp # NoResponse

Causes == resp.body.possible_causes

Listed(name) == \E i \in 1..Len(Causes) : Causes[i] = name

\* the conditions of the mapping one of whose phrases occurs in the
\* lowercased text
Matching ==
    LET lowered == LowerStr(req.text)
    IN  {i \in 1..Len(KEYWORDS) :
            \E k \in {KEYWORDS[i].keys[j] : j \in 1..Len(KEYWORDS[i].keys)} :
                Contains(lowered, k)}

\* C1 as stated: every condition one of whose phrases occurs in the
\* lowercased text is named in possible_causes.
C1_EveryMatchListed ==
    Answered => \A i \in Matching : Listed(KEYWORDS[i].diagnosis)

\* C1 amended: a condition one of whose phrases occurs in the lowercased text
\* is named in possible_causes unless three conditions declared before it
\* match too; a condition preceded by fewer than three matches is always named.
C1_MatchListedUnlessTruncated ==
    Answered =>
        LET M == Matching
        IN  \A i \in M :
                Listed(KEYWORDS[i].diagnosis)
                    <=> Cardinality({j \in M : j < i}) < 3

C1_Witness ==
    /\ Answered
    /\ req.text # LowerStr(req.text)
    /\ Cardinality(Matching) = 3
    /\ \A i \in Matching : Listed(KEYWORDS[i].diagnosis)

\* C2: when four or more conditions match, possible_causes holds exactly the
\* three matching conditions that come first in the declared order, in that
\* order, whatever the number of phrases each of them matched.
C2_FirstThreeInDeclaredOrder ==
    (Answered /\ Cardinality(Matching) >= 4) =>
        LET M == Matching
        IN  \E a, b, c \in M :
            /\ a < b /\ b < c
            /\ \A j \in M : j < c => j \in {a, b}
            /\ Causes = <<KEYWORDS[a].diagnosis, KEYWORDS[b].diagnosis,
                          KEYWORDS[c].diagnosis>>

C2_Witness ==
    /\ Answered
    /\ Cardinality(Matching) >= 4
    /\ 1 \notin Matching
    /\ Len(Causes) = 3

\* C3: a text in which no phrase occurs (the empty text included) is answered
\* with exactly <<"General Viral Infection", "Dehydration">>, and that list
\* is the answer only when no condition matches.
C3_FallbackIffNoMatch ==
    Answered =>
        ((Matching = {}) <=>
            (Causes = <<"General Viral Infection", "Dehydration">>))

C3_Witness ==
    /\ Answered
    /\ req.text = ""
    /\ Causes = <<"General Viral Infection", "Dehydration">>

\* C4: possible_causes is never empty and never longer than three; with n >= 1
\* matching conditions it names min(n, 3) conditions of the mapping, and with
\* none it is the whole two-element fallback.
C4_LengthBounds ==
    Answered =>
        LET M == Matching
        IN
        /\ Len(Causes) >= 1
        /\ Len(Causes) <= 3
        /\ M # {} =>
              /\ Len(Causes) = Min(3, Cardinality(M))
              /\ \A n \in 1..Len(Causes) :
                    \E i \in M : Causes[n] = KEYWORDS[i].diagnosis
        /\ M = {} =>
              /\ Len(Causes) = 2
              /\ Listed("General Viral Infection")
              /\ Listed("Dehydration")

C4_Witness ==
    /\ Answered
    /\ Cardinality(Matching) = 5
    /\ Len(Causes) = 3

(***************************************************************************)
(* Claims about the handlers and the store.                                *)
(***************************************************************************)
Last(seq) == seq[Len(seq)]

\* the document without the identifier the store gave it
Body(doc) == [f \in DOMAIN doc \ {"_id"} |-> doc[f]]

\* `after` is `before` with exactly one document more, at the end
OneMore(before, after) ==
    /\ Len(after) = Len(before) + 1
    /\ SubSeq(after, 1, Len(before)) = before

\* C5 (SpecConsult): POST /consult/message answers 200 whatever the sender;
\* the message it stored last carries sender "doctor" when the request said
\* "doctor" and "user" for every other sender string; and every stored
\* message has sender "user" or "doctor".
C5_SenderCoerced ==
    /\ req.op = "post_message" =>
          /\ resp.status = 200
          /\ store["message"] # <<>>
          /\ LET m == Last(store["message"])
             IN  /\ m.sender = IF req.body.sender = "doctor" THEN "doctor" ELSE "user"
                 /\ m.consultation_id = req.body.consultation_id
                 /\ m.text = req.body.text
                 /\ resp.body.message_id = ToString(m._id)
    /\ \A i \in DOMAIN store["message"] :
          store["message"][i].sender \in {"user", "doctor"}

C5_Witness ==
    /\ req.op = "post_message"
    /\ req.body.sender = "nurse"
    /\ resp.status = 200
    /\ Last(store["message"]).sender = "user"

\* C6 (SpecConsult): a POST /consult/end step leaves every collection as it
\* was and answers the request's consultation_id and rating with status
\* "ended", for ids that were issued and ids that were not; and no stored
\* consultation ever has an end time or a rating.
C6_EndIsEchoOnly ==
    [][ /\ req'.op = "end_consult" =>
              /\ store' = store
              /\ resp'.status = 200
              /\ resp'.body = [consultation_id |-> req'.body.consultation_id,
                               rating |-> req'.body.rating, status |-> "ended"]
        /\ \A i \in DOMAIN store'["consultation"] :
              /\ store'["consultation"][i].ended_at = <<>>
              /\ store'["consultation"][i].rating = <<>>
      ]_vars

C6_Witness ==
    /\ req.op = "end_consult"
    /\ req.body.rating = <<5>>
    /\ resp.body.status = "ended"
    /\ \E i \in DOMAIN store["consultation"] :
          /\ ToString(store["consultation"][i]._id) = req.body.consultation_id
          /\ store["consultation"][i].rating = <<>>

\* the declared bounds, as the claim states them
VitalInRange(v) ==
    /\ v.heart_rate \in 20..220
    /\ v.bp_systolic \in 60..220
    /\ v.bp_diastolic \in 40..140
    /\ v.spo2 \in 50..100
    /\ v.temperature_c \in 300..450

\* C7 (SpecRanges): POST /vitals stores exactly one vital, the body, when
\* heart_rate is in 20..220, bp_systolic in 60..220, bp_diastolic in 40..140,
\* spo2 in 50..100 and temperature_c in 30.0..45.0, and POST /reminders
\* without a token stores exactly one reminder when duration_days is in
\* 1..365; otherwise the answer is a validation error (422) and the store is
\* unchanged.  Nothing but these ranges decides.
C7_RangeDecidesPersistence ==
    [][ /\ req'.op = "record_vital" =>
              IF VitalInRange(req'.body)
              THEN /\ resp'.status = 200
                   /\ OneMore(store["vital"], store'["vital"])
                   /\ Body(Last(store'["vital"])) = req'.body
                   /\ \A c \in Collections \ {"vital"} : store'[c] = store[c]
              ELSE /\ resp'.status = 422
                   /\ store' = store
        /\ req'.op = "create_reminder" =>
              IF req'.body.duration_days \in 1..365
              THEN /\ resp'.status = 200
                   /\ OneMore(store["reminder"], store'["reminder"])
                   /\ Body(Last(store'["reminder"])) = req'.body
                   /\ \A c \in Collections \ {"reminder"} : store'[c] = store[c]
              ELSE /\ resp'.status = 422
                   /\ store' = store
      ]_vars

C7_Witness ==
    /\ req.op = "record_vital"
    /\ req.body.bp_systolic < req.body.bp_diastolic
    /\ resp.status = 200
    /\ Body(Last(store["vital"])) = req.body
    /\ \E i \in DOMAIN store["reminder"] :
          store["reminder"][i].duration_days = 365

\* C8 (SpecReminders): POST /reminders with a valid body stores exactly one
\* reminder, with the body's user_email, and answers "created" when it
\* carries no token or a token signed with the server's key whose expiry is
\* still ahead, whoever the token names; with any other token it answers 401
\* and stores nothing.
C8_TokenDecorative ==
    [][ (/\ req'.op = "create_reminder"
         /\ now' = now
         /\ req'.body.duration_days \in 1..365) =>
            IF \/ req'.creds = <<>>
               \/ /\ req'.creds[1].key = "dev_secret_change_me"
                  /\ req'.creds[1].exp > now
            THEN /\ resp' = [body |-> [status |-> "created"], status |-> 200]
                 /\ OneMore(store["reminder"], store'["reminder"])
                 /\ Last(store'["reminder"]).user_email = req'.body.user_email
                 /\ \A c \in Collections \ {"reminder"} : store'[c] = store[c]
            ELSE /\ resp'.status = 401
                 /\ store' = store
      ]_vars

C8_Witness ==
    /\ req.op = "create_reminder"
    /\ req.creds # <<>>
    /\ req.creds[1].sub # req.body.user_email
    /\ req.creds[1].iat < now
    /\ resp = [body |-> [status |-> "created"], status |-> 200]
    /\ store["reminder"] # <<>>
    /\ Last(store["reminder"]).user_email = req.body.user_email

\* the collection each create endpoint writes to
CollectionOf(op) ==
    CASE op = "start_consult" -> "consultation"
      [] op = "post_message" -> "message"
      [] op = "create_reminder" -> "reminder"
      [] op = "record_vital" -> "vital"
      [] op = "save_offline" -> "offlinemessage"
      [] OTHER -> "no collection"

\* C9 (Spec): in every step of every interleaving, an accepted request to a
\* create endpoint appends exactly one document to that endpoint's
\* collection and leaves the others as they were, every other step leaves
\* the whole store as it was, and the documents already stored stay in
\* place, unmodified.
C9_AppendOnly ==
    [][ \A c \in Collections :
            IF now' = now /\ resp'.status = 200 /\ c = CollectionOf(req'.op)
            THEN OneMore(store[c], store'[c])
            ELSE store'[c] = store[c]
      ]_vars

C9_Witness ==
    /\ req.op = "record_vital"
    /\ resp.status = 200
    /\ Len(store["vital"]) = MaxDocs

\* C10 (SpecQuery) as stated: with the email parameter supplied, GET
\* /reminders and GET /vitals return only documents whose user_email is that
\* value, at most 100 resp. `limit` of them, and documents of all owners
\* only when the parameter is absent.
C10_OnlyTheOwnersDocuments ==
    (req.op \in {"list_reminders", "get_vitals"} /\ req.email # <<>>) =>
        /\ resp.status = 200
        /\ Len(resp.body) <= IF req.op = "get_vitals" THEN req.limit ELSE 100
        /\ \A i \in DOMAIN resp.body : resp.body[i].user_email = req.email[1]

====
